---- MODULE Spec2Model ----
(***************************************************************************)
(* Model of the notes application (src/src/App.tsx): the in-memory note    *)
(* collection of the App component, its modal controller, the form field   *)
(* and the localStorage slot "notes" that mirrors the collection.          *)
(*                                                                         *)
(* Strings (ids, contents, ISO timestamps, JSON text) are sequences of     *)
(* one-character strings, so that JSON.stringify / JSON.parse are real     *)
(* conversions between a collection and a text.                            *)
(***************************************************************************)
EXTENDS Integers, Sequences, FiniteSets, TLC

(***************************************************************************)
(* Bounds of the model.                                                    *)
(***************************************************************************)
\* number of distinct identifiers uuidv4() can hand out
MaxIds == 3
\* last reading of the clock
MaxTime == 1
\* number of notes the form of one tab is let to pile up
MaxCards == 2

Tabs == {"A", "B"}

(***************************************************************************)
(* Strings.                                                                *)
(***************************************************************************)
Digit(n) == CASE n = 0 -> "0" [] n = 1 -> "1" [] n = 2 -> "2" [] n = 3 -> "3"
              [] n = 4 -> "4" [] n = 5 -> "5" [] n = 6 -> "6" [] n = 7 -> "7"
              [] n = 8 -> "8" [] n = 9 -> "9"

DigitVal(c) == CASE c = "0" -> 0 [] c = "1" -> 1 [] c = "2" -> 2 [] c = "3" -> 3
                 [] c = "4" -> 4 [] c = "5" -> 5 [] c = "6" -> 6 [] c = "7" -> 7
                 [] c = "8" -> 8 [] c = "9" -> 9

\* The identifiers uuidv4() can return: distinct fixed-format strings.
Uuid(i) == <<"u", Digit(i \div 10), Digit(i % 10)>>

Uuids == { Uuid(i) : i \in 1..MaxIds }

\* new Date().toISOString() at clock reading n: a fixed-width, zero-padded
\* text, so that the order of the texts is the order of the readings.
toISOString(n) == <<"T", Digit(n \div 10), Digit(n % 10)>>

\* new Date(s).getTime() on such a text.
DateParse(s) == DigitVal(s[2]) * 10 + DigitVal(s[3])

\* The texts the user can type in the textarea; they include the characters
\* JSON has to escape and the ones it uses as punctuation.
Contents == { <<"a">>, <<"\"", ",", "\\", "]">> }

EmptyString == << >>

(***************************************************************************)
(* Note (App.tsx 6-11) and Modal (17-20).                                  *)
(***************************************************************************)
Note(id, content, createdAt, updatedAt) ==
    [id |-> id, content |-> content, createdAt |-> createdAt, updatedAt |-> updatedAt]

\* the value null of modal.data
NullNote == [isNull |-> TRUE]

Modal(type, data) == [type |-> type, data |-> data]

ClosedModal == Modal("", NullNote)

(***************************************************************************)
(* JSON.stringify on a Note[].                                             *)
(***************************************************************************)
\* the characters of s with a backslash before every quote and backslash
RECURSIVE QuoteChars(_)
QuoteChars(s) ==
    IF s = << >> THEN << >>
    ELSE (IF Head(s) \in {"\"", "\\"} THEN <<"\\", Head(s)>> ELSE <<Head(s)>>)
         \o QuoteChars(Tail(s))

\* a JSON string literal; a text with nothing to escape is written as it is
Quote(s) ==
    IF \A k \in 1..Len(s) : s[k] \notin {"\"", "\\"}
    THEN <<"\"">> \o s \o <<"\"">>
    ELSE <<"\"">> \o QuoteChars(s) \o <<"\"">>

KeyId == <<"i", "d">>
KeyContent == <<"c", "o", "n", "t", "e", "n", "t">>
KeyCreatedAt == <<"c", "r", "e", "a", "t", "e", "d", "A", "t">>
KeyUpdatedAt == <<"u", "p", "d", "a", "t", "e", "d", "A", "t">>

\* the text that precedes the value of each property: properties are
\* written in the order the object literal created them
BeforeId == <<"{">> \o Quote(KeyId) \o <<":">>
BeforeContent == <<",">> \o Quote(KeyContent) \o <<":">>
BeforeCreatedAt == <<",">> \o Quote(KeyCreatedAt) \o <<":">>
BeforeUpdatedAt == <<",">> \o Quote(KeyUpdatedAt) \o <<":">>

SerializeNote(n) ==
    BeforeId \o Quote(n.id) \o BeforeContent \o Quote(n.content)
             \o BeforeCreatedAt \o Quote(n.createdAt)
             \o BeforeUpdatedAt \o Quote(n.updatedAt) \o <<"}">>

RECURSIVE SerializeElements(_)
SerializeElements(ns) ==
    IF ns = << >> THEN << >>
    ELSE IF Len(ns) = 1 THEN SerializeNote(ns[1])
    ELSE SerializeNote(ns[1]) \o <<",">> \o SerializeElements(Tail(ns))

JSONstringify(ns) == <<"[">> \o SerializeElements(ns) \o <<"]">>

(***************************************************************************)
(* JSON.parse, on the texts the slot can hold: a recursive-descent parser  *)
(* for arrays of objects whose members are strings.  Every step returns    *)
(* [ok, val, pos]: whether the text parses that far, the value read and    *)
(* the position after it.                                                  *)
(***************************************************************************)
ParseFail == [ok |-> FALSE, val |-> << >>, pos |-> 0]

ParseOk(v, p) == [ok |-> TRUE, val |-> v, pos |-> p]

\* the characters of a string literal from position i (after the opening
\* quote) to its closing quote
RECURSIVE ScanString(_, _, _)
ScanString(s, i, acc) ==
    IF i > Len(s) THEN ParseFail
    ELSE IF s[i] = "\"" THEN ParseOk(acc, i + 1)
    ELSE IF s[i] = "\\"
         THEN IF i + 1 <= Len(s) /\ s[i + 1] \in {"\"", "\\", "/"}
              THEN ScanString(s, i + 2, Append(acc, s[i + 1]))
              ELSE ParseFail
    ELSE ScanString(s, i + 1, Append(acc, s[i]))

ParseString(s, i) ==
    IF i <= Len(s) /\ s[i] = "\"" THEN ScanString(s, i + 1, << >>) ELSE ParseFail

Expect(s, i, c) == i <= Len(s) /\ s[i] = c

\* "key":"value"
ParseMemberValue(k, v) ==
    IF ~v.ok THEN ParseFail
    ELSE ParseOk([key |-> k.val, value |-> v.val], v.pos)

ParseMemberKey(s, k) ==
    IF ~k.ok \/ ~Expect(s, k.pos, ":") THEN ParseFail
    ELSE ParseMemberValue(k, ParseString(s, k.pos + 1))

ParseMember(s, i) == ParseMemberKey(s, ParseString(s, i))

\* the members of an object from position i to its closing brace
RECURSIVE ParseMembers(_, _, _)
ParseMembersAfter(s, acc, m) ==
    IF ~m.ok THEN ParseFail
    ELSE IF Expect(s, m.pos, ",") THEN ParseMembers(s, m.pos + 1, Append(acc, m.val))
    ELSE IF Expect(s, m.pos, "}") THEN ParseOk(Append(acc, m.val), m.pos + 1)
    ELSE ParseFail

ParseMembers(s, i, acc) == ParseMembersAfter(s, acc, ParseMember(s, i))

\* the value of property key among the members read; a later member of the
\* same key overrides an earlier one; a missing one reads as the empty text
RECURSIVE Property(_, _)
Property(members, key) ==
    IF members = << >> THEN EmptyString
    ELSE IF members[Len(members)].key = key THEN members[Len(members)].value
    ELSE Property(SubSeq(members, 1, Len(members) - 1), key)

ObjectOf(ms) ==
    IF ~ms.ok THEN ParseFail
    ELSE ParseOk(Note(Property(ms.val, KeyId), Property(ms.val, KeyContent),
                      Property(ms.val, KeyCreatedAt), Property(ms.val, KeyUpdatedAt)),
                 ms.pos)

ParseObject(s, i) ==
    IF ~Expect(s, i, "{") THEN ParseFail
    ELSE IF Expect(s, i + 1, "}")
         THEN ParseOk(Note(EmptyString, EmptyString, EmptyString, EmptyString), i + 2)
    ELSE ObjectOf(ParseMembers(s, i + 1, << >>))

\* the elements of an array from position i to its closing bracket
RECURSIVE ParseElements(_, _, _)
ParseElementsAfter(s, acc, o) ==
    IF ~o.ok THEN ParseFail
    ELSE IF Expect(s, o.pos, ",") THEN ParseElements(s, o.pos + 1, Append(acc, o.val))
    ELSE IF Expect(s, o.pos, "]") THEN ParseOk(Append(acc, o.val), o.pos + 1)
    ELSE ParseFail

ParseElements(s, i, acc) == ParseElementsAfter(s, acc, ParseObject(s, i))

ParseArray(s, i) ==
    IF ~Expect(s, i, "[") THEN ParseFail
    ELSE IF Expect(s, i + 1, "]") THEN ParseOk(<< >>, i + 2)
    ELSE ParseElements(s, i + 1, << >>)

\* JSON.parse(text): [error, value]; error is a thrown SyntaxError.  The
\* whole text has to be consumed.
ValueOf(text, a) ==
    IF a.ok /\ a.pos = Len(text) + 1
    THEN [error |-> FALSE, value |-> a.val]
    ELSE [error |-> TRUE, value |-> << >>]

JSONparse(text) == ValueOf(text, ParseArray(text, 1))

(***************************************************************************)
(* State.                                                                  *)
(***************************************************************************)
VARIABLES
    now,           \* the reading of the system clock (new Date())
    issued,        \* the identifiers uuidv4() has returned so far
    slot,          \* localStorage item "notes": [present, text]
    pc,            \* per tab: "unmounted", "mounted", "idle" or "crashed"
    notes,         \* per tab: the state notes of App
    modal,         \* per tab: the state modal of App
    markdownMode,  \* per tab: the state markdownMode of App
    field,         \* per tab: the value of the form field content
    lastOp         \* the last page load, handler or effect run: tab, handler, store operation, arguments, error

vars == <<now, issued, slot, pc, notes, modal, markdownMode, field, lastOp>>

NoSlot == [present |-> FALSE, text |-> EmptyString]

SlotText(text) == [present |-> TRUE, text |-> text]

\* found: whether the collection rendered held a note of that id
Op(t, handler, op, id, content, found, error) ==
    [tab |-> t, handler |-> handler, op |-> op, id |-> id, content |-> content,
     found |-> found, error |-> error]

NoError == "none"

(***************************************************************************)
(* The Note Store: the three functions of App that compute the next        *)
(* collection (App.tsx 63-92), as functions of the collection rendered.    *)
(***************************************************************************)
Ids(ns) == { ns[i].id : i \in 1..Len(ns) }

\* notes.filter((note) => note.id !== id)
RECURSIVE FilterOut(_, _)
FilterOut(ns, id) ==
    IF ns = << >> THEN << >>
    ELSE IF Head(ns).id # id THEN <<Head(ns)>> \o FilterOut(Tail(ns), id)
    ELSE FilterOut(Tail(ns), id)

\* notes.find((note) => note.id === id): the index of the first match, 0 for
\* undefined
Find(ns, id) ==
    IF id \in Ids(ns) THEN CHOOSE i \in 1..Len(ns) : ns[i].id = id /\ \A j \in 1..(i - 1) : ns[j].id # id
    ELSE 0

\* uuidv4(): an identifier that was never returned before.  Identifiers are
\* opaque, so the first unused one stands for any fresh one; none is left
\* when all of Uuids have been handed out.
uuidv4 ==
    IF issued = Uuids THEN {}
    ELSE { Uuid(CHOOSE i \in 1..MaxIds : Uuid(i) \notin issued /\ \A j \in 1..(i - 1) : Uuid(j) \in issued) }

\* addNote putting the new note last
addNoteAtEnd(ns, content, id, date) == Append(ns, Note(id, content, date, date))

\* addNote: the array handed to setNotes
addNote(ns, content, id, date) == <<Note(id, content, date, date)>> \o ns

\* editNote without the filter: the old record stays in the array
editNoteKeepsOld(ns, id, content, date) ==
    IF Find(ns, id) = 0 THEN [error |-> "TypeError", notes |-> ns]
    ELSE LET noteToEdit == [ns[Find(ns, id)] EXCEPT !.content = content, !.updatedAt = date]
         IN  [error |-> NoError, notes |-> <<noteToEdit>> \o ns]

\* editNote changing the record where it is
editNoteInPlace(ns, id, content, date) ==
    IF Find(ns, id) = 0 THEN [error |-> "TypeError", notes |-> ns]
    ELSE [error |-> NoError,
          notes |-> [ns EXCEPT ![Find(ns, id)] =
                        [ns[Find(ns, id)] EXCEPT !.content = content, !.updatedAt = date]]]

\* editNote with push in place of unshift
editNoteToBack(ns, id, content, date) ==
    IF Find(ns, id) = 0 THEN [error |-> "TypeError", notes |-> ns]
    ELSE LET noteToEdit == [ns[Find(ns, id)] EXCEPT !.content = content, !.updatedAt = date]
         IN  [error |-> NoError, notes |-> Append(FilterOut(ns, id), noteToEdit)]

\* editNote that leaves updatedAt alone
editNoteStaleDate(ns, id, content, date) ==
    IF Find(ns, id) = 0 THEN [error |-> "TypeError", notes |-> ns]
    ELSE LET noteToEdit == [ns[Find(ns, id)] EXCEPT !.content = content]
         IN  [error |-> NoError, notes |-> <<noteToEdit>> \o FilterOut(ns, id)]

\* editNote stamping the first reading of the clock
editNoteEpoch(ns, id, content, date) ==
    IF Find(ns, id) = 0 THEN [error |-> "TypeError", notes |-> ns]
    ELSE LET noteToEdit == [ns[Find(ns, id)] EXCEPT !.content = content, !.updatedAt = toISOString(0)]
         IN  [error |-> NoError, notes |-> <<noteToEdit>> \o FilterOut(ns, id)]

\* editNote that also stamps createdAt
editNoteRecreates(ns, id, content, date) ==
    IF Find(ns, id) = 0 THEN [error |-> "TypeError", notes |-> ns]
    ELSE LET noteToEdit == [ns[Find(ns, id)] EXCEPT !.content = content,
                                                     !.createdAt = date, !.updatedAt = date]
         IN  [error |-> NoError, notes |-> <<noteToEdit>> \o FilterOut(ns, id)]

\* editNote that creates the note it does not find
editNoteUpsert(ns, id, content, date) ==
    IF Find(ns, id) = 0 THEN [error |-> NoError, notes |-> <<Note(id, content, date, date)>> \o ns]
    ELSE LET noteToEdit == [ns[Find(ns, id)] EXCEPT !.content = content, !.updatedAt = date]
         IN  [error |-> NoError, notes |-> <<noteToEdit>> \o FilterOut(ns, id)]

\* editNote: [error, notes].  When find returns undefined the first
\* assignment throws a TypeError and setNotes is not reached; otherwise notes
\* is the array handed to setNotes.
editNote(ns, id, content, date) ==
    IF Find(ns, id) = 0 THEN [error |-> "TypeError", notes |-> ns]
    ELSE LET noteToEdit == [ns[Find(ns, id)] EXCEPT !.content = content, !.updatedAt = date]
         IN  [error |-> NoError, notes |-> <<noteToEdit>> \o FilterOut(ns, id)]

\* deleteNote dropping the head of the array, whatever its id
deleteNoteHead(ns, id) == IF ns = << >> THEN << >> ELSE Tail(ns)

\* deleteNote: the array handed to setNotes
deleteNote(ns, id) == FilterOut(ns, id)

(***************************************************************************)
(* The Persistence Adapter (App.tsx 23, 28-30).                            *)
(***************************************************************************)
\* JSON.parse(localStorage.getItem('notes')!) || []
\* getItem returns null for a missing item, JSON.parse(null) is null
loadNotes(s) ==
    IF ~s.present THEN [error |-> FALSE, value |-> << >>]
    ELSE JSONparse(s.text)

\* a serialization that writes the content as it is, unescaped
SerializeNoteRaw(n) ==
    BeforeId \o Quote(n.id) \o BeforeContent \o <<"\"">> \o n.content \o <<"\"">>
             \o BeforeCreatedAt \o Quote(n.createdAt)
             \o BeforeUpdatedAt \o Quote(n.updatedAt) \o <<"}">>

RECURSIVE SerializeElementsRaw(_)
SerializeElementsRaw(ns) ==
    IF ns = << >> THEN << >>
    ELSE IF Len(ns) = 1 THEN SerializeNoteRaw(ns[1])
    ELSE SerializeNoteRaw(ns[1]) \o <<",">> \o SerializeElementsRaw(Tail(ns))

saveNotesUnescaped(ns) == SlotText(<<"[">> \o SerializeElementsRaw(ns) \o <<"]">>)

\* a save of the newest note alone
saveNotesHead(ns) == SlotText(JSONstringify(SubSeq(ns, 1, IF Len(ns) > 1 THEN 1 ELSE Len(ns))))

\* localStorage.setItem('notes', JSON.stringify(notes))
saveNotes(ns) == SlotText(JSONstringify(ns))

(***************************************************************************)
(* Initial state: no tab has loaded the page yet; the slot was never       *)
(* written, or holds a text cut short (a prefix of a serialized            *)
(* collection, the empty text included).                                   *)
(***************************************************************************)
SampleText == JSONstringify(<<Note(<<"u", "0", "0">>, <<"a">>, toISOString(0), toISOString(0))>>)

Malformed == { SubSeq(SampleText, 1, k) : k \in {0, 1, 9, Len(SampleText) - 1} }

Init ==
    /\ now = 0
    /\ issued = {}
    /\ slot \in {NoSlot} \cup { SlotText(m) : m \in Malformed }
    /\ pc = [t \in Tabs |-> "unmounted"]
    /\ notes = [t \in Tabs |-> << >>]
    /\ modal = [t \in Tabs |-> ClosedModal]
    /\ markdownMode = [t \in Tabs |-> TRUE]
    /\ field = [t \in Tabs |-> EmptyString]
    /\ lastOp = Op("", "", "init", EmptyString, EmptyString, FALSE, NoError)

(***************************************************************************)
(* Environment.                                                            *)
(***************************************************************************)
\* the clock advances; it never goes backwards
Tick ==
    /\ now < MaxTime
    /\ now' = now + 1
    /\ UNCHANGED <<issued, slot, pc, notes, modal, markdownMode, field, lastOp>>

\* The page is loaded in tab t: the useState initializers of App run
\* (App.tsx 23-25).  A SyntaxError thrown by JSON.parse escapes the render
\* of the root component and nothing is mounted.
Start(t) ==
    /\ pc[t] = "unmounted"
    /\ LET loaded == loadNotes(slot) IN
       IF loaded.error
       THEN /\ pc' = [pc EXCEPT ![t] = "crashed"]
            /\ lastOp' = Op(t, "", "start", EmptyString, EmptyString, FALSE, "SyntaxError")
            /\ UNCHANGED <<notes, modal, markdownMode, field>>
       ELSE /\ pc' = [pc EXCEPT ![t] = "mounted"]
            /\ notes' = [notes EXCEPT ![t] = loaded.value]
            /\ modal' = [modal EXCEPT ![t] = ClosedModal]
            /\ markdownMode' = [markdownMode EXCEPT ![t] = TRUE]
            /\ field' = [field EXCEPT ![t] = EmptyString]
            /\ lastOp' = Op(t, "", "start", EmptyString, EmptyString, FALSE, NoError)
    /\ UNCHANGED <<now, issued, slot>>

\* The effect on [notes] (App.tsx 28-30) runs for the first time, after
\* the first render was painted.
MountEffect(t) ==
    /\ pc[t] = "mounted"
    /\ slot' = saveNotes(notes[t])
    /\ pc' = [pc EXCEPT ![t] = "idle"]
    /\ lastOp' = Op(t, "", "effect", EmptyString, EmptyString, FALSE, NoError)
    /\ UNCHANGED <<now, issued, notes, modal, markdownMode, field>>

\* The page is closed or reloaded in tab t: the component state is gone.
Reload(t) ==
    /\ pc[t] \in {"idle", "crashed"}
    /\ pc' = [pc EXCEPT ![t] = "unmounted"]
    /\ notes' = [notes EXCEPT ![t] = << >>]
    /\ modal' = [modal EXCEPT ![t] = ClosedModal]
    /\ markdownMode' = [markdownMode EXCEPT ![t] = TRUE]
    /\ field' = [field EXCEPT ![t] = EmptyString]
    /\ lastOp' = Op(t, "", "reload", EmptyString, EmptyString, FALSE, NoError)
    /\ UNCHANGED <<now, issued, slot>>

(***************************************************************************)
(* The handlers of App.  A handler runs on the state of the last render,   *)
(* in a mounted tab; a control can be used when it is rendered.  A         *)
(* handler that calls setNotes makes [notes] change, so its step ends with *)
(* the render and the effect on [notes] (App.tsx 28-30), which React runs  *)
(* before it handles the next event; a handler that does not call it       *)
(* leaves the slot alone.                                                  *)
(***************************************************************************)
\* the + button (App.tsx 49-51, 125-130)
HandleAdd(t) ==
    /\ pc[t] = "idle"
    /\ modal' = [modal EXCEPT ![t] = Modal("ADD", NullNote)]
    /\ lastOp' = Op(t, "handleAdd", "", EmptyString, EmptyString, FALSE, NoError)
    /\ UNCHANGED <<now, issued, slot, pc, notes, markdownMode, field>>

\* a card (App.tsx 99-104)
TapCard(t) ==
    /\ pc[t] = "idle"
    /\ \E i \in 1..Len(notes[t]) :
          /\ modal' = [modal EXCEPT ![t] = Modal("VIEW", notes[t][i])]
          /\ lastOp' = Op(t, "tapCard", "", notes[t][i].id, EmptyString, TRUE, NoError)
    /\ UNCHANGED <<now, issued, slot, pc, notes, markdownMode, field>>

\* Edit in the view modal (App.tsx 53-56, 208-213)
HandleEdit(t) ==
    /\ pc[t] = "idle"
    /\ modal[t].type = "VIEW"
    /\ field' = [field EXCEPT ![t] = modal[t].data.content]
    /\ modal' = [modal EXCEPT ![t] = Modal("EDIT", modal[t].data)]
    /\ lastOp' = Op(t, "handleEdit", "", modal[t].data.id, EmptyString,
                     modal[t].data.id \in Ids(notes[t]), NoError)
    /\ UNCHANGED <<now, issued, slot, pc, notes, markdownMode>>

\* Delete that removes the first card, whatever note is viewed
HandleDeleteFirst(t) ==
    /\ pc[t] = "idle"
    /\ modal[t].type = "VIEW"
    /\ notes' = [notes EXCEPT ![t] = IF notes[t] = << >> THEN << >> ELSE Tail(notes[t])]
    /\ slot' = SlotText(JSONstringify(notes'[t]))
    /\ modal' = [modal EXCEPT ![t] = ClosedModal]
    /\ lastOp' = Op(t, "handleDelete", "deleteNote", modal[t].data.id, EmptyString,
                     modal[t].data.id \in Ids(notes[t]), NoError)
    /\ UNCHANGED <<now, issued, pc, markdownMode, field>>

\* Delete that leaves the view modal showing
HandleDeleteStaysOpen(t) ==
    /\ pc[t] = "idle"
    /\ modal[t].type = "VIEW"
    /\ notes' = [notes EXCEPT ![t] = FilterOut(notes[t], modal[t].data.id)]
    /\ slot' = SlotText(JSONstringify(notes'[t]))
    /\ lastOp' = Op(t, "handleDelete", "deleteNote", modal[t].data.id, EmptyString,
                     modal[t].data.id \in Ids(notes[t]), NoError)
    /\ UNCHANGED <<now, issued, pc, modal, markdownMode, field>>

\* Delete in the view modal (App.tsx 58-61, 214-219)
HandleDelete(t) ==
    /\ pc[t] = "idle"
    /\ modal[t].type = "VIEW"
    /\ notes' = [notes EXCEPT ![t] = deleteNote(notes[t], modal[t].data.id)]
    /\ slot' = saveNotes(notes'[t])
    /\ modal' = [modal EXCEPT ![t] = ClosedModal]
    /\ lastOp' = Op(t, "handleDelete", "deleteNote", modal[t].data.id, EmptyString,
                     modal[t].data.id \in Ids(notes[t]), NoError)
    /\ UNCHANGED <<now, issued, pc, markdownMode, field>>

\* the user changes the text of the textarea (App.tsx 156-161)
Type(t) ==
    /\ pc[t] = "idle"
    /\ modal[t].type \in {"ADD", "EDIT"}
    /\ \E c \in Contents \cup {EmptyString} :
          /\ c # field[t]
          /\ field' = [field EXCEPT ![t] = c]
    /\ lastOp' = Op(t, "type", "", EmptyString, EmptyString, FALSE, NoError)
    /\ UNCHANGED <<now, issued, slot, pc, notes, modal, markdownMode>>

\* the form is submitted with ADD showing (App.tsx 38-47, 151-154); the
\* textarea is required, so an empty one is not submitted
SubmitAdd(t) ==
    /\ pc[t] = "idle"
    /\ modal[t].type = "ADD"
    /\ field[t] # EmptyString
    /\ Len(notes[t]) < MaxCards
    /\ \E id \in uuidv4 :
          /\ issued' = issued \cup {id}
          /\ notes' = [notes EXCEPT ![t] = addNote(notes[t], field[t], id, toISOString(now))]
          /\ lastOp' = Op(t, "handleForm", "addNote", id, field[t], FALSE, NoError)
    /\ slot' = saveNotes(notes'[t])
    /\ field' = [field EXCEPT ![t] = EmptyString]
    /\ modal' = [modal EXCEPT ![t] = ClosedModal]
    /\ UNCHANGED <<now, pc, markdownMode>>

\* the form is submitted with EDIT showing (App.tsx 38-47, 151-154); when
\* editNote throws, the rest of handleForm does not run
SubmitEdit(t) ==
    /\ pc[t] = "idle"
    /\ modal[t].type = "EDIT"
    /\ field[t] # EmptyString
    /\ LET id == modal[t].data.id
           edited == editNote(notes[t], id, field[t], toISOString(now))
       IN  /\ lastOp' = Op(t, "handleForm", "editNote", id, field[t],
                           id \in Ids(notes[t]), edited.error)
           /\ IF edited.error # NoError
              THEN UNCHANGED <<notes, slot, field, modal>>
              ELSE /\ notes' = [notes EXCEPT ![t] = edited.notes]
                   /\ slot' = saveNotes(notes'[t])
                   /\ field' = [field EXCEPT ![t] = EmptyString]
                   /\ modal' = [modal EXCEPT ![t] = ClosedModal]
    /\ UNCHANGED <<now, issued, pc, markdownMode>>

\* Cancel in the form modal (App.tsx 142-150)
Cancel(t) ==
    /\ pc[t] = "idle"
    /\ modal[t].type \in {"ADD", "EDIT"}
    /\ modal' = [modal EXCEPT ![t] = ClosedModal]
    /\ field' = [field EXCEPT ![t] = EmptyString]
    /\ lastOp' = Op(t, "cancel", "", EmptyString, EmptyString, FALSE, NoError)
    /\ UNCHANGED <<now, issued, slot, pc, notes, markdownMode>>

\* a click on the backdrop of the form modal (App.tsx 133-137).  setValue
\* is not called: useForm (App.tsx 26, shouldUnregister at its default)
\* keeps the value of content while the textarea is unmounted and gives
\* it to the textarea that is mounted next.
BackdropForm(t) ==
    /\ pc[t] = "idle"
    /\ modal[t].type \in {"ADD", "EDIT"}
    /\ modal' = [modal EXCEPT ![t] = ClosedModal]
    /\ lastOp' = Op(t, "backdrop", "", EmptyString, EmptyString, FALSE, NoError)
    /\ UNCHANGED <<now, issued, slot, pc, notes, markdownMode, field>>

\* a click on the backdrop of the view modal (App.tsx 171-175)
BackdropView(t) ==
    /\ pc[t] = "idle"
    /\ modal[t].type = "VIEW"
    /\ modal' = [modal EXCEPT ![t] = ClosedModal]
    /\ lastOp' = Op(t, "backdrop", "", EmptyString, EmptyString, FALSE, NoError)
    /\ UNCHANGED <<now, issued, slot, pc, notes, markdownMode, field>>

\* Close that also removes the note viewed
CloseDeletes(t) ==
    /\ pc[t] = "idle"
    /\ modal[t].type = "VIEW"
    /\ notes' = [notes EXCEPT ![t] = FilterOut(notes[t], modal[t].data.id)]
    /\ slot' = SlotText(JSONstringify(notes'[t]))
    /\ modal' = [modal EXCEPT ![t] = ClosedModal]
    /\ lastOp' = Op(t, "close", "", EmptyString, EmptyString, FALSE, NoError)
    /\ UNCHANGED <<now, issued, pc, markdownMode, field>>

\* Close in the view modal (App.tsx 191-196)
Close(t) ==
    /\ pc[t] = "idle"
    /\ modal[t].type = "VIEW"
    /\ modal' = [modal EXCEPT ![t] = ClosedModal]
    /\ lastOp' = Op(t, "close", "", EmptyString, EmptyString, FALSE, NoError)
    /\ UNCHANGED <<now, issued, slot, pc, notes, markdownMode, field>>

\* the checkbox "View as markdown" (App.tsx 182-188)
ToggleMarkdown(t) ==
    /\ pc[t] = "idle"
    /\ modal[t].type = "VIEW"
    /\ markdownMode' = [markdownMode EXCEPT ![t] = ~markdownMode[t]]
    /\ lastOp' = Op(t, "toggle", "", EmptyString, EmptyString, FALSE, NoError)
    /\ UNCHANGED <<now, issued, slot, pc, notes, modal, field>>

(***************************************************************************)
(* The application in one tab.                                             *)
(***************************************************************************)
Next ==
    \/ Tick
    \/ Start("A")
    \/ MountEffect("A")
    \/ Reload("A")
    \/ HandleAdd("A")
    \/ TapCard("A")
    \/ HandleEdit("A")
    \/ HandleDelete("A")
    \/ Type("A")
    \/ SubmitAdd("A")
    \/ SubmitEdit("A")
    \/ Cancel("A")
    \/ BackdropForm("A")
    \/ BackdropView("A")
    \/ Close("A")
    \/ ToggleMarkdown("A")

Spec == Init /\ [][Next]_vars

(***************************************************************************)
(* The Note Store driven directly: addNote, editNote and deleteNote called *)
(* with any content and any identifier, present in the collection or not,  *)
(* each setNotes followed by the render and the effect on [notes].         *)
(***************************************************************************)
\* addNote whose save puts the new note in front of what the slot holds
CallAddNoteIncremental(t) ==
    /\ pc[t] = "idle"
    /\ \E c \in Contents, id \in uuidv4 :
          /\ issued' = issued \cup {id}
          /\ notes' = [notes EXCEPT ![t] = <<Note(id, c, toISOString(now), toISOString(now))>> \o notes[t]]
          /\ slot' = SlotText(JSONstringify(
                         <<Note(id, c, toISOString(now), toISOString(now))>> \o loadNotes(slot).value))
          /\ lastOp' = Op(t, "", "addNote", id, c, FALSE, NoError)
    /\ UNCHANGED <<now, pc, modal, markdownMode, field>>

CallAddNote(t) ==
    /\ pc[t] = "idle"
    /\ \E c \in Contents, id \in uuidv4 :
          /\ issued' = issued \cup {id}
          /\ notes' = [notes EXCEPT ![t] = addNote(notes[t], c, id, toISOString(now))]
          /\ lastOp' = Op(t, "", "addNote", id, c, FALSE, NoError)
    /\ slot' = saveNotes(notes'[t])
    /\ UNCHANGED <<now, pc, modal, markdownMode, field>>

CallEditNote(t) ==
    /\ pc[t] = "idle"
    /\ \E c \in Contents, id \in Uuids :
          LET edited == editNote(notes[t], id, c, toISOString(now)) IN
          /\ lastOp' = Op(t, "", "editNote", id, c, id \in Ids(notes[t]), edited.error)
          /\ IF edited.error # NoError
             THEN UNCHANGED <<notes, slot>>
             ELSE /\ notes' = [notes EXCEPT ![t] = edited.notes]
                  /\ slot' = saveNotes(notes'[t])
    /\ UNCHANGED <<now, issued, pc, modal, markdownMode, field>>

CallDeleteNote(t) ==
    /\ pc[t] = "idle"
    /\ \E id \in Uuids :
          /\ notes' = [notes EXCEPT ![t] = deleteNote(notes[t], id)]
          /\ lastOp' = Op(t, "", "deleteNote", id, EmptyString, id \in Ids(notes[t]), NoError)
    /\ slot' = saveNotes(notes'[t])
    /\ UNCHANGED <<now, issued, pc, modal, markdownMode, field>>

StoreNext ==
    \/ Tick
    \/ Start("A")
    \/ MountEffect("A")
    \/ Reload("A")
    \/ CallAddNote("A")
    \/ CallEditNote("A")
    \/ CallDeleteNote("A")

StoreSpec == Init /\ [][StoreNext]_vars

(***************************************************************************)
(* Two tabs of one origin: each runs its own App over the one localStorage *)
(* slot; the handlers of the two interleave, each running to completion.   *)
(* No tab listens to the storage event.  The store of a tab is driven as   *)
(* its forms drive it, with the ids of notes the tab holds, and the clock  *)
(* stands still.                                                           *)
(***************************************************************************)
\* the contents typed in the two tabs
TwoTabContents == { <<"\"", ",", "\\", "]">> }

TwoTabNext ==
    \E t \in Tabs :
        \/ Start(t)
        \/ MountEffect(t)
        \/ Reload(t)
        \/ (Cardinality(issued) < MaxCards /\ CallAddNote(t) /\ lastOp'.content \in TwoTabContents)
        \/ (CallEditNote(t) /\ lastOp'.found /\ lastOp'.content \in TwoTabContents)
        \/ (CallDeleteNote(t) /\ lastOp'.found)

TwoTabSpec == Init /\ [][TwoTabNext]_vars

(***************************************************************************)
(* The application in one tab with a Note Store that can lose a note       *)
(* behind the back of the modal: deleteNote called directly while a modal  *)
(* shows, so that modal.data can name a note that is no longer in notes.   *)
(***************************************************************************)
StaleNext ==
    \/ Next
    \/ CallDeleteNote("A")

StaleSpec == Init /\ [][StaleNext]_vars

(***************************************************************************)
(* Properties.                                                             *)
(***************************************************************************)
\* a step of tab t in which store operation op was called (every step but
\* a tick of the clock records itself in lastOp)
StoreStep(t, op) ==
    /\ pc[t] = "idle"
    /\ now' = now
    /\ lastOp'.tab = t
    /\ lastOp'.op = op

\* such a step in which the operation called setNotes
SetNotesStep(t, op) == StoreStep(t, op) /\ lastOp'.error = NoError

\* the position of the note of that id in ns
Pos(ns, id) == CHOOSE i \in 1..Len(ns) : ns[i].id = id

\* ns without its k-th element
Without(ns, k) == SubSeq(ns, 1, k - 1) \o SubSeq(ns, k + 1, Len(ns))

\* every note of after is in before, and any two of them are in the order
\* they had in before
SameRelativeOrder(before, after) ==
    \A i, j \in 1..Len(after) :
        /\ after[i].id \in Ids(before)
        /\ i < j => Pos(before, after[i].id) < Pos(before, after[j].id)

\* C1: the collection of a tab never holds two notes with the same id.
UniqueIds ==
    \A t \in Tabs : \A i, j \in 1..Len(notes[t]) :
        i # j => notes[t][i].id # notes[t][j].id

\* three notes were added, one was deleted and one of the two left was
\* edited
UniqueIdsWitness ==
    /\ Len(notes["A"]) = 2
    /\ issued = Uuids
    /\ lastOp.op = "editNote"
    /\ lastOp.found
    /\ lastOp.error = NoError

\* updatedAt does not increase along the collection
SortedByUpdatedAt ==
    \A t \in Tabs : \A i, j \in 1..Len(notes[t]) :
        i < j => DateParse(notes[t][i].updatedAt) >= DateParse(notes[t][j].updatedAt)

\* C2: the collection is ordered most recently created or edited first
\* (updatedAt never increases along it), and a delete leaves the remaining
\* notes in the order they had.
MostRecentFirst ==
    /\ []SortedByUpdatedAt
    /\ [][\A t \in Tabs : SetNotesStep(t, "deleteNote") =>
             SameRelativeOrder(notes[t], notes'[t])]_vars

\* a note was deleted from a collection of three, and the two that remain
\* differ in updatedAt
MostRecentFirstWitness ==
    /\ lastOp.op = "deleteNote"
    /\ lastOp.found
    /\ Len(notes["A"]) = 2
    /\ notes["A"][1].updatedAt # notes["A"][2].updatedAt

\* C3: add puts a new note of the given content, with a fresh id and
\* createdAt equal to updatedAt, at index 0, before the notes that were
\* there, which keep their order and fields; the length grows by one.
AddPrepends ==
    [][\A t \in Tabs : SetNotesStep(t, "addNote") =>
          /\ Len(notes'[t]) = Len(notes[t]) + 1
          /\ notes'[t][1].content = lastOp'.content
          /\ notes'[t][1].id = lastOp'.id
          /\ notes'[t][1].id \notin Ids(notes[t]) \cup issued
          /\ notes'[t][1].createdAt = notes'[t][1].updatedAt
          /\ notes'[t][1].createdAt = toISOString(now)
          /\ Tail(notes'[t]) = notes[t]]_vars

\* a third note was added in front of two
AddPrependsWitness ==
    /\ lastOp.op = "addNote"
    /\ pc["A"] = "idle"
    /\ Len(notes["A"]) = 3
    /\ notes["A"][1].id = lastOp.id

\* C4: edit of an existing id moves the note to index 0 with the new
\* content; the length is unchanged and the other notes follow as they
\* were, in the order they had.
EditMovesToFront ==
    [][\A t \in Tabs : (SetNotesStep(t, "editNote") /\ lastOp'.found) =>
          /\ Len(notes'[t]) = Len(notes[t])
          /\ notes'[t][1].id = lastOp'.id
          /\ notes'[t][1].content = lastOp'.content
          /\ \E k \in 1..Len(notes[t]) :
                /\ notes[t][k].id = lastOp'.id
                /\ Tail(notes'[t]) = Without(notes[t], k)
          /\ SameRelativeOrder(notes[t], Tail(notes'[t]))]_vars

\* an edit moved a note in front of two others, one of them created after it
EditMovesToFrontWitness ==
    /\ lastOp.op = "editNote"
    /\ lastOp.found
    /\ pc["A"] = "idle"
    /\ Len(notes["A"]) = 3
    /\ notes["A"][1].id = lastOp.id
    /\ \E j \in 2..3 : DateParse(notes["A"][1].createdAt) < DateParse(notes["A"][j].createdAt)

\* C5 as stated: after an edit of an existing note, its updatedAt is strictly
\* greater than its createdAt.
EditSetsLaterUpdatedAt ==
    \A t \in Tabs :
        (/\ lastOp.tab = t
         /\ lastOp.op = "editNote"
         /\ lastOp.found
         /\ lastOp.error = NoError
         /\ pc[t] = "idle")
        => DateParse(notes[t][1].updatedAt) > DateParse(notes[t][1].createdAt)

\* C5, amended: after an edit of an existing note, its updatedAt is the
\* reading of the clock at the edit; it is not earlier than its createdAt,
\* and strictly later exactly when the clock has advanced since the note
\* was created.
EditStampsClock ==
    [][\A t \in Tabs : (SetNotesStep(t, "editNote") /\ lastOp'.found) =>
          /\ notes'[t][1].id = lastOp'.id
          /\ notes'[t][1].updatedAt = toISOString(now)
          /\ notes'[t][1].createdAt = notes[t][Pos(notes[t], lastOp'.id)].createdAt
          /\ DateParse(notes'[t][1].updatedAt) >= DateParse(notes'[t][1].createdAt)
          /\ (DateParse(notes'[t][1].updatedAt) > DateParse(notes'[t][1].createdAt)
                <=> DateParse(notes[t][Pos(notes[t], lastOp'.id)].createdAt) < now)]_vars

\* a note was edited at a later reading of the clock than it was created at
EditStampsClockWitness ==
    /\ lastOp.op = "editNote"
    /\ lastOp.found
    /\ pc["A"] = "idle"
    /\ notes["A"][1].id = lastOp.id
    /\ DateParse(notes["A"][1].updatedAt) > DateParse(notes["A"][1].createdAt)

\* C6: delete of an id in the collection removes that one note: the length
\* drops by one and the others keep fields and order; delete of an id not
\* in the collection is no error and leaves length and contents as they
\* were.
DeleteRemovesOne ==
    [][\A t \in Tabs : StoreStep(t, "deleteNote") =>
          /\ lastOp'.error = NoError
          /\ IF lastOp'.found
             THEN /\ Len(notes'[t]) = Len(notes[t]) - 1
                  /\ lastOp'.id \notin Ids(notes'[t])
                  /\ \E k \in 1..Len(notes[t]) :
                        /\ notes[t][k].id = lastOp'.id
                        /\ notes'[t] = Without(notes[t], k)
             ELSE /\ Len(notes'[t]) = Len(notes[t])
                  /\ notes'[t] = notes[t]]_vars

\* a delete of an id that is not in a collection of two notes
DeleteRemovesOneWitness ==
    /\ lastOp.op = "deleteNote"
    /\ ~lastOp.found
    /\ pc["A"] = "idle"
    /\ Len(notes["A"]) = 2

\* C7: a collection saved to the slot and loaded from it is the same
\* collection, order and fields.
RoundTrip ==
    \A t \in Tabs :
        pc[t] \in {"mounted", "idle"} =>
            loadNotes(saveNotes(notes[t])) = [error |-> FALSE, value |-> notes[t]]

\* a page load read three notes from the slot, one of them with characters
\* that JSON escapes
RoundTripWitness ==
    /\ lastOp.op = "start"
    /\ pc["A"] = "mounted"
    /\ Len(notes["A"]) = 3
    /\ \E i \in 1..3 : \E k \in 1..Len(notes["A"][i].content) :
          notes["A"][i].content[k] \in {"\"", "\\"}

\* C8: at rest (the handler has run and the effect is flushed) the slot
\* holds the serialization of the whole collection in memory.
SlotMirrorsNotes ==
    \A t \in Tabs :
        pc[t] = "idle" => slot = SlotText(JSONstringify(notes[t]))

\* at rest after two adds, an edit and a delete in the view modal that left
\* one note
SlotMirrorsNotesWitness ==
    /\ pc["A"] = "idle"
    /\ lastOp.handler = "handleDelete"
    /\ lastOp.found
    /\ Len(notes["A"]) = 1
    /\ issued = {Uuid(1), Uuid(2)}
    /\ notes["A"][1].updatedAt # notes["A"][1].createdAt

\* C9 as stated: a page load that finds the slot missing or malformed ends
\* with an empty collection and the modal closed.
StartRecovers ==
    \A t \in Tabs :
        (/\ lastOp.tab = t
         /\ lastOp.op = "start"
         /\ pc[t] \in {"mounted", "crashed"}
         /\ (~slot.present \/ JSONparse(slot.text).error))
        => (pc[t] = "mounted" /\ notes[t] = << >> /\ modal[t] = ClosedModal)

\* C10: edit of an id that is in no note fails with an error and leaves
\* the collection and the slot as they were.
EditMissingFails ==
    [][\A t \in Tabs : (StoreStep(t, "editNote") /\ ~lastOp'.found) =>
          /\ lastOp'.error = "TypeError"
          /\ notes' = notes
          /\ slot' = slot
          /\ pc' = pc]_vars

\* an edit of an id that is not in a collection of two saved notes failed
EditMissingFailsWitness ==
    /\ lastOp.op = "editNote"
    /\ ~lastOp.found
    /\ lastOp.error = "TypeError"
    /\ pc["A"] = "idle"
    /\ Len(notes["A"]) = 2
    /\ slot = SlotText(JSONstringify(notes["A"]))

\* a handler of tab t ran on a modal whose note is not in the collection
StaleStep(t) ==
    /\ pc[t] = "idle"
    /\ modal[t].type \in {"VIEW", "EDIT"}
    /\ modal[t].data.id \notin Ids(notes[t])
    /\ lastOp'.tab = t
    /\ lastOp'.handler \in {"handleEdit", "handleDelete", "handleForm"}

FieldPrefilledOnEntry ==
    [][\A t \in Tabs : (pc[t] = "idle" /\ pc'[t] = "idle") =>
          /\ (modal[t].type # "ADD" /\ modal'[t].type = "ADD")
                => field'[t] = EmptyString
          /\ (modal[t].type # "EDIT" /\ modal'[t].type = "EDIT")
                => field'[t] = modal'[t].data.content]_vars

\* a step of tab t made by one of these handlers
HandlerStep(t, handlers) ==
    /\ pc[t] = "idle"
    /\ now' = now
    /\ lastOp'.tab = t
    /\ lastOp'.handler \in handlers

\* C13: Cancel, Close and a click on a backdrop close the modal that was
\* showing and leave the collection and the slot as they were; the + button,
\* a card, Edit and the markdown checkbox leave the collection and the slot
\* as they were.
ClosingKeepsNotes ==
    [][\A t \in Tabs :
          /\ HandlerStep(t, {"cancel", "close", "backdrop"}) =>
                /\ modal[t].type \in {"ADD", "EDIT", "VIEW"}
                /\ modal'[t] = ClosedModal
                /\ notes' = notes
                /\ slot' = slot
          /\ HandlerStep(t, {"handleAdd", "tapCard", "handleEdit", "toggle"}) =>
                /\ notes' = notes
                /\ slot' = slot]_vars

\* the view modal of one of two saved notes was closed with Close
ClosingKeepsNotesWitness ==
    /\ pc["A"] = "idle"
    /\ lastOp.handler = "close"
    /\ modal["A"] = ClosedModal
    /\ Len(notes["A"]) = 2
    /\ slot = SlotText(JSONstringify(notes["A"]))

\* C14: with a clock that does not go backwards, no note of a collection
\* has an updatedAt earlier than its createdAt.
UpdatedNotBeforeCreated ==
    \A t \in Tabs : \A i \in 1..Len(notes[t]) :
        DateParse(notes[t][i].updatedAt) >= DateParse(notes[t][i].createdAt)

\* after the clock advanced, a collection holds a note edited later than it
\* was created and a note never edited that was created at the later reading
UpdatedNotBeforeCreatedWitness ==
    /\ pc["A"] = "idle"
    /\ now > 0
    /\ \E i, j \in 1..Len(notes["A"]) :
          /\ DateParse(notes["A"][i].updatedAt) > DateParse(notes["A"][i].createdAt)
          /\ notes["A"][j].createdAt = toISOString(now)
          /\ notes["A"][j].updatedAt = notes["A"][j].createdAt

\* C15: while a tab runs, every note of its collection after a step is the
\* note just added (under an id that was not there), or the note just
\* edited, which keeps its id and createdAt, or a note that was there with
\* all four fields as they were.
IdAndCreatedAtFixed ==
    [][\A t \in Tabs : (pc[t] = "idle" /\ pc'[t] = "idle") =>
          \A i \in 1..Len(notes'[t]) :
              IF now' = now /\ lastOp'.tab = t /\ lastOp'.op = "addNote"
                    /\ notes'[t][i].id = lastOp'.id
              THEN notes'[t][i].id \notin Ids(notes[t])
              ELSE IF now' = now /\ lastOp'.tab = t /\ lastOp'.op = "editNote"
                         /\ notes'[t][i].id = lastOp'.id
              THEN \E k \in 1..Len(notes[t]) :
                      /\ notes[t][k].id = notes'[t][i].id
                      /\ notes[t][k].createdAt = notes'[t][i].createdAt
              ELSE \E k \in 1..Len(notes[t]) : notes[t][k] = notes'[t][i]]_vars

\* one of two notes was edited at a later reading of the clock than both
\* were created at
IdAndCreatedAtFixedWitness ==
    /\ pc["A"] = "idle"
    /\ lastOp.op = "editNote"
    /\ lastOp.found
    /\ Len(notes["A"]) = 2
    /\ notes["A"][1].id = lastOp.id
    /\ notes["A"][1].updatedAt = toISOString(now)
    /\ notes["A"][1].createdAt # toISOString(now)
    /\ notes["A"][2].createdAt # toISOString(now)

\* a step of tab t that ran the effect on [notes]: the first effect after
\* the page load, or a store operation that called setNotes
SaveStep(t) ==
    /\ pc[t] \in {"mounted", "idle"}
    /\ now' = now
    /\ lastOp'.tab = t
    /\ lastOp'.op \in {"effect", "addNote", "editNote", "deleteNote"}
    /\ lastOp'.error = NoError

\* C16: with two tabs on one slot, after a save by a tab the slot holds
\* that tab's whole collection and nothing else, and the collection of the
\* other tab is as it was.
LastWriterWins ==
    [][\A t \in Tabs : SaveStep(t) =>
          /\ slot'.present
          /\ loadNotes(slot') = [error |-> FALSE, value |-> notes'[t]]
          /\ \A u \in Tabs \ {t} : notes'[u] = notes[u]]_vars

\* tab A added a note and saved while tab B holds a note that A never
\* loaded: the slot has lost B's note, and B still holds it
LastWriterWinsWitness ==
    /\ pc["A"] = "idle"
    /\ pc["B"] = "idle"
    /\ lastOp.tab = "A"
    /\ lastOp.op = "addNote"
    /\ slot = SlotText(JSONstringify(notes["A"]))
    /\ \E i \in 1..Len(notes["B"]) :
          /\ notes["B"][i].id \notin Ids(notes["A"])
          /\ notes["B"][i].id \notin Ids(loadNotes(slot).value)

\* C17: the modal becomes EDIT only from VIEW, with the note that was
\* viewed, and keeps that note while it is EDIT; a submit of the edit form
\* edits that note and no other, a submit of the add form adds one note
\* with the text submitted, Delete removes the note viewed and no other;
\* after each of the three the modal is closed.
ControllerActsOnCarriedNote ==
    [][\A t \in Tabs : (pc[t] = "idle" /\ pc'[t] = "idle") =>
          /\ (modal[t].type # "EDIT" /\ modal'[t].type = "EDIT") =>
                /\ modal[t].type = "VIEW"
                /\ modal'[t].data = modal[t].data
          /\ (modal[t].type = "EDIT" /\ modal'[t].type = "EDIT") =>
                modal'[t].data = modal[t].data
          /\ (HandlerStep(t, {"handleForm"}) /\ modal[t].type = "EDIT") =>
                /\ lastOp'.op = "editNote"
                /\ lastOp'.error = NoError
                /\ modal[t].data.id \in Ids(notes[t])
                /\ notes'[t][1].id = modal[t].data.id
                /\ notes'[t][1].content = field[t]
                /\ Tail(notes'[t]) = Without(notes[t], Pos(notes[t], modal[t].data.id))
                /\ modal'[t] = ClosedModal
          /\ (HandlerStep(t, {"handleForm"}) /\ modal[t].type = "ADD") =>
                /\ lastOp'.op = "addNote"
                /\ notes'[t][1].content = field[t]
                /\ notes'[t][1].id \notin Ids(notes[t])
                /\ Tail(notes'[t]) = notes[t]
                /\ modal'[t] = ClosedModal
          /\ HandlerStep(t, {"handleDelete"}) =>
                /\ modal[t].type = "VIEW"
                /\ lastOp'.op = "deleteNote"
                /\ modal[t].data.id \in Ids(notes[t])
                /\ notes'[t] = Without(notes[t], Pos(notes[t], modal[t].data.id))
                /\ modal'[t] = ClosedModal]_vars

\* the second of two cards was viewed and deleted with Delete
ControllerActsOnCarriedNoteWitness ==
    /\ pc["A"] = "idle"
    /\ lastOp.handler = "handleDelete"
    /\ modal["A"] = ClosedModal
    /\ Len(notes["A"]) = 1
    /\ issued = {Uuid(1), Uuid(2)}
    /\ lastOp.id = Uuid(1)
    /\ notes["A"][1].id = Uuid(2)
    /\ notes["A"][1].updatedAt = notes["A"][1].createdAt

\* C18: in one tab, the modal carries a note exactly when its type is VIEW
\* or EDIT, and then a note of that id is in the collection with the same
\* content.
ModalCarriesStoredNote ==
    \A t \in Tabs :
        /\ modal[t].data # NullNote <=> modal[t].type \in {"VIEW", "EDIT"}
        /\ modal[t].type \in {"VIEW", "EDIT"} =>
              /\ modal[t].data.id \in Ids(notes[t])
              /\ notes[t][Pos(notes[t], modal[t].data.id)].content = modal[t].data.content

\* the edit form shows for the second of two cards, a note that was edited
\* before, with new text typed
ModalCarriesStoredNoteWitness ==
    /\ pc["A"] = "idle"
    /\ modal["A"].type = "EDIT"
    /\ Len(notes["A"]) = 2
    /\ modal["A"].data.id = notes["A"][2].id
    /\ notes["A"][2].updatedAt # notes["A"][2].createdAt
    /\ field["A"] # modal["A"].data.content
    /\ field["A"] # EmptyString

====
